---- MODULE Spec2Model ----
(***************************************************************************)
(* A model of superbol/sed.py: the inverse-variance combination of         *)
(* duplicate flux measurements (get_SED) and the filling of missing epochs *)
(* by linear interpolation in time (interpolate_missing_fluxes).           *)
(*                                                                         *)
(* Numbers.  Python floats are modelled by exact rationals [n, d] in       *)
(* lowest terms with d > 0, so that equality of records is equality of     *)
(* numbers.  The value of math.sqrt(r) is modelled symbolically by the     *)
(* record [sq |-> r]: the code only ever squares an uncertainty again      *)
(* (s**2), and Pow2([sq |-> r]) = r.  Rounding is not modelled.            *)
(*                                                                         *)
(* Exceptions.  A call either returns, Return(v), or raises, Raise(e).     *)
(***************************************************************************)
EXTENDS Integers, Sequences, FiniteSets, TLC

VARIABLES
    SEDs,                  \* the collection interpolate_missing_fluxes mutates
    pc,                    \* where the call of interpolate_missing_fluxes is
    observed_wavelengths,  \* sed.py:74
    observed_times,        \* sed.py:75
    wl,                    \* index of the for-loop of sed.py:76
    interpolated_fluxes,   \* sed.py:78
    SED,                   \* index of the for-loop of sed.py:82
    exception,             \* the exception that ended the call, "" if none
    calls,                 \* number of calls of interpolate_missing_fluxes begun
    snapshots,             \* snapshots[k]: SEDs when the k-th call began
    fn,                    \* the pure function that was called, "" before the call
    args,                  \* its arguments
    result                 \* what it returned or raised

vars == <<SEDs, pc, observed_wavelengths, observed_times, wl,
          interpolated_fluxes, SED, exception, calls, snapshots,
          fn, args, result>>

----------------------------------------------------------------------------
(* Bounds of the model *)

MaxSEDs == 3        \* SEDs in a collection
MaxTime == 4        \* epochs are 1..MaxTime
MaxLen == 3         \* length of the lists handed to the pure functions
MaxCalls == 2       \* calls of interpolate_missing_fluxes in a row

Wavelengths == {1, 2}
Times == 1..MaxTime

----------------------------------------------------------------------------
(* Exact arithmetic *)

Abs(x) == IF x < 0 THEN -x ELSE x

RECURSIVE GCD(_, _)
GCD(a, b) == IF b = 0 THEN a ELSE GCD(b, a % b)

\* n/d in lowest terms, d # 0
Rat(n, d) ==
    LET g == GCD(Abs(n), Abs(d))
        s == IF d < 0 THEN -1 ELSE 1
    IN  [n |-> (s * n) \div g, d |-> (s * d) \div g]

FromInt(k) == [n |-> k, d |-> 1]

RatAdd(a, b) == Rat(a.n * b.d + b.n * a.d, a.d * b.d)
RatSub(a, b) == Rat(a.n * b.d - b.n * a.d, a.d * b.d)
RatMul(a, b) == Rat(a.n * b.n, a.d * b.d)
RatLeq(a, b) == a.n * b.d <= b.n * a.d
RatIsZero(a) == a.n = 0

\* a / b, b # 0
RatDiv(a, b) == Rat(a.n * b.d, a.d * b.n)

\* math.sqrt(r) for r >= 0, kept symbolic
Sqrt(r) == [sq |-> r]

\* x**2
Pow2(x) == IF "sq" \in DOMAIN x THEN x.sq ELSE RatMul(x, x)

\* sum() of a list of numbers, left to right from 0
RECURSIVE Sum(_)
Sum(s) == IF s = <<>> THEN FromInt(0)
          ELSE RatAdd(Sum(SubSeq(s, 1, Len(s) - 1)), s[Len(s)])

----------------------------------------------------------------------------
(* Outcomes of a call *)

Return(v) == [ok |-> TRUE, value |-> v]
Raise(e) == [ok |-> FALSE, exception |-> e]

ValueError == "ValueError"
ZeroDivisionError == "ZeroDivisionError"

----------------------------------------------------------------------------
(* The measurements *)

MonochromaticFlux(flux, flux_uncertainty, wavelength, time) ==
    [flux |-> flux, flux_uncertainty |-> flux_uncertainty,
     wavelength |-> wavelength, time |-> time]

get_flux_values(fluxes) == [i \in DOMAIN fluxes |-> fluxes[i].flux]

get_flux_uncertainties(fluxes) ==
    [i \in DOMAIN fluxes |-> fluxes[i].flux_uncertainty]

get_times(fluxes) == [i \in DOMAIN fluxes |-> fluxes[i].time]

\* the elements of a list, as a set
Elems(s) == {s[i] : i \in DOMAIN s}

----------------------------------------------------------------------------
(* The flux combiner *)

\* [1/s**2 for s in uncertainties]: 1/0.0 raises ZeroDivisionError
get_weights_no_square(uncertainties) ==
    IF \E i \in DOMAIN uncertainties : RatIsZero(Pow2(uncertainties[i]))
    THEN Raise(ZeroDivisionError)
    ELSE Return([i \in DOMAIN uncertainties |->
                    RatDiv(FromInt(1), uncertainties[i])])

get_weights(uncertainties) ==
    IF \E i \in DOMAIN uncertainties : RatIsZero(Pow2(uncertainties[i]))
    THEN Raise(ZeroDivisionError)
    ELSE Return([i \in DOMAIN uncertainties |->
                    RatDiv(FromInt(1), Pow2(uncertainties[i]))])

weighted_average(values, uncertainties) ==
    LET weights == get_weights(uncertainties)
    IN  IF ~weights.ok THEN weights
        ELSE LET denominator == Sum(weights.value)
                 numerator ==
                     Sum([i \in DOMAIN values |->
                             RatMul(weights.value[i], values[i])])
             IN  IF RatIsZero(denominator) THEN Raise(ZeroDivisionError)
                 ELSE Return(RatDiv(numerator, denominator))

weighted_average_uncertainty(uncertainties) ==
    LET weights == get_weights(uncertainties)
    IN  IF ~weights.ok THEN weights
        ELSE IF RatIsZero(Sum(weights.value)) THEN Raise(ZeroDivisionError)
        ELSE Return(Sqrt(RatDiv(FromInt(1), Sum(weights.value))))

combine_fluxes(fluxes) ==
    LET values == get_flux_values(fluxes)
        uncertainties == get_flux_uncertainties(fluxes)
        combined_flux == weighted_average(values, uncertainties)
        combined_uncertainty == weighted_average_uncertainty(uncertainties)
    IN  IF ~combined_flux.ok THEN combined_flux
        ELSE IF ~combined_uncertainty.ok THEN combined_uncertainty
        ELSE Return(MonochromaticFlux(combined_flux.value,
                                      combined_uncertainty.value,
                                      fluxes[1].wavelength,
                                      fluxes[1].time))

----------------------------------------------------------------------------
(* The SED builder *)

\* The orders in which the iteration over a Python set may deliver its elements
Orders(S) ==
    {o \in [1..Cardinality(S) -> S] :
        \A i, j \in 1..Cardinality(S) : o[i] = o[j] => i = j}

\* One list per wavelength of the list itself, duplicates included
yield_fluxes_per_listed_wavelength(fluxes, order) ==
    [k \in DOMAIN fluxes |->
        SelectSeq(fluxes, LAMBDA f : f.wavelength = fluxes[k].wavelength)]

\* One list per element of set(f.wavelength for f in fluxes), delivered in `order`
yield_fluxes_at_each_observed_wavelength(fluxes, order) ==
    [k \in DOMAIN order |->
        SelectSeq(fluxes, LAMBDA f : f.wavelength = order[k])]

get_SED(fluxes, order) ==
    LET groups == yield_fluxes_at_each_observed_wavelength(fluxes, order)
        each == [k \in DOMAIN groups |->
                    IF Len(groups[k]) = 1 THEN Return(groups[k][1])
                    ELSE combine_fluxes(groups[k])]
    IN  IF \E k \in DOMAIN each : ~each[k].ok
        THEN each[CHOOSE k \in DOMAIN each :
                    ~each[k].ok /\ \A j \in 1..(k - 1) : each[j].ok]
        ELSE Return([k \in DOMAIN each |-> each[k].value])

----------------------------------------------------------------------------
(* The gap interpolator *)

\* sorted(list(set(...)))
RECURSIVE Sorted(_)
Sorted(S) ==
    IF S = {} THEN <<>>
    ELSE LET m == CHOOSE x \in S : \A y \in S : x <= y
         IN  <<m>> \o Sorted(S \ {m})

get_observed_wavelengths(seds) ==
    Sorted(UNION {{seds[i][j].wavelength : j \in DOMAIN seds[i]} :
                    i \in DOMAIN seds})

get_observed_times(seds) ==
    Sorted(UNION {Elems(get_times(seds[i])) : i \in DOMAIN seds})

RECURSIVE get_monochromatic_lightcurve(_, _)
get_monochromatic_lightcurve(seds, wavelength) ==
    IF seds = <<>> THEN <<>>
    ELSE get_monochromatic_lightcurve(SubSeq(seds, 1, Len(seds) - 1),
                                      wavelength)
         \o SelectSeq(seds[Len(seds)], LAMBDA f : f.wavelength = wavelength)

get_unobserved_times(lightcurve, times) ==
    SelectSeq(times, LAMBDA t : t \notin Elems(get_times(lightcurve)))

\* max(fluxes, key=time) and min(fluxes, key=time): the first of the extremes
MaxByTime(fluxes) ==
    fluxes[CHOOSE i \in DOMAIN fluxes :
              /\ \A j \in DOMAIN fluxes : fluxes[j].time <= fluxes[i].time
              /\ \A j \in 1..(i - 1) : fluxes[j].time < fluxes[i].time]

MinByTime(fluxes) ==
    fluxes[CHOOSE i \in DOMAIN fluxes :
              /\ \A j \in DOMAIN fluxes : fluxes[j].time >= fluxes[i].time
              /\ \A j \in 1..(i - 1) : fluxes[j].time > fluxes[i].time]

\* delta >= 0 in place of delta > 0
get_previous_flux_or_equal(monochromatic_lightcurve, unobserved_time) ==
    LET earlier_fluxes ==
            SelectSeq(monochromatic_lightcurve,
                      LAMBDA flux : unobserved_time - flux.time >= 0)
    IN  IF earlier_fluxes = <<>> THEN Raise(ValueError)
        ELSE Return(MaxByTime(earlier_fluxes))

get_previous_flux(monochromatic_lightcurve, unobserved_time) ==
    LET earlier_fluxes ==
            SelectSeq(monochromatic_lightcurve,
                      LAMBDA flux : unobserved_time - flux.time > 0)
    IN  IF earlier_fluxes = <<>> THEN Raise(ValueError)
        ELSE Return(MaxByTime(earlier_fluxes))

get_next_flux(monochromatic_lightcurve, unobserved_time) ==
    LET later_fluxes ==
            SelectSeq(monochromatic_lightcurve,
                      LAMBDA flux : unobserved_time - flux.time < 0)
    IN  IF later_fluxes = <<>> THEN Raise(ValueError)
        ELSE Return(MinByTime(later_fluxes))

\* interp1d([x0, x1], [y0, y1])(x), linear, x0 < x1
interp1d(x0, x1, y0, y1, x) ==
    LET slope == RatDiv(RatSub(y1, y0), FromInt(x1 - x0))
    IN  RatAdd(RatMul(slope, FromInt(x - x0)), y0)

get_interpolated_flux_uncertainty(previous_flux, next_flux, unobserved_time) ==
    LET weight1 == Rat(next_flux.time - unobserved_time,
                       next_flux.time - previous_flux.time)
        weight2 == Rat(unobserved_time - previous_flux.time,
                       next_flux.time - previous_flux.time)
    IN  Sqrt(RatAdd(RatAdd(RatMul(Pow2(weight1),
                                  Pow2(previous_flux.flux_uncertainty)),
                           Pow2(weight2)),
                    Pow2(next_flux.flux_uncertainty)))

\* The for-loop of get_interpolated_fluxes over the unobserved times still to do
RECURSIVE InterpolateEach(_, _, _)
InterpolateEach(lightcurve, unobserved_times, fluxes) ==
    IF unobserved_times = <<>> THEN Return(fluxes)
    ELSE
      LET unobserved_time == Head(unobserved_times)
          previous_flux == get_previous_flux(lightcurve, unobserved_time)
          next_flux == get_next_flux(lightcurve, unobserved_time)
      IN  IF ~previous_flux.ok THEN previous_flux
          ELSE IF ~next_flux.ok THEN next_flux
          ELSE IF next_flux.value.time - previous_flux.value.time <= 2
          THEN InterpolateEach(lightcurve, Tail(unobserved_times),
                  Append(fluxes,
                      MonochromaticFlux(
                          interp1d(previous_flux.value.time,
                                   next_flux.value.time,
                                   previous_flux.value.flux,
                                   next_flux.value.flux,
                                   unobserved_time),
                          get_interpolated_flux_uncertainty(
                              previous_flux.value, next_flux.value,
                              unobserved_time),
                          previous_flux.value.wavelength,
                          unobserved_time)))
          ELSE InterpolateEach(lightcurve, Tail(unobserved_times), fluxes)

\* Every flux is stamped with previous_flux.time in place of unobserved_time
get_interpolated_fluxes_at_previous_time(lightcurve, times) ==
    LET r == InterpolateEach(lightcurve,
                             get_unobserved_times(lightcurve, times), <<>>)
    IN  IF ~r.ok THEN r
        ELSE Return([k \in DOMAIN r.value |->
                [r.value[k] EXCEPT
                    !.time = get_previous_flux(lightcurve, @).value.time]])

get_interpolated_fluxes(lightcurve, times) ==
    InterpolateEach(lightcurve, get_unobserved_times(lightcurve, times), <<>>)

\* The inner loop of append_interpolated_fluxes_to_SEDs for one SED; every
\* flux is appended, whatever its time
AppendAllTo(sed, fluxes) == sed \o fluxes

\* The comparison is with the time of the SED's last element
AppendToByLast(sed, fluxes) ==
    sed \o SelectSeq(fluxes, LAMBDA f : f.time = sed[Len(sed)].time)

\* The new fluxes are put in front
PrependTo(sed, fluxes) ==
    SelectSeq(fluxes, LAMBDA f : f.time = sed[1].time) \o sed

\* The inner loop of append_interpolated_fluxes_to_SEDs for one SED.  SED[0]
\* does not change while the loop appends.
AppendTo(sed, fluxes) ==
    sed \o SelectSeq(fluxes, LAMBDA f : f.time = sed[1].time)

----------------------------------------------------------------------------
(* Placeholders for the variables a specification does not use *)

NoArgs == [for |-> ""]
NoResult == Raise("")

NoCall ==
    /\ fn = ""
    /\ args = NoArgs
    /\ result = NoResult

NoCollection ==
    /\ SEDs = <<>>
    /\ pc = ""
    /\ observed_wavelengths = <<>>
    /\ observed_times = <<>>
    /\ wl = 0
    /\ interpolated_fluxes = <<>>
    /\ SED = 0
    /\ exception = ""
    /\ calls = 0
    /\ snapshots = <<>>

----------------------------------------------------------------------------
(* interpolate_missing_fluxes on a collection of SEDs *)

\* The measurement of wavelength w at epoch t.  No branch of the interpolator
\* reads a flux or an uncertainty, so they are fixed by w and t.
Observation(w, t) ==
    MonochromaticFlux(FromInt(10 * w + t * t), FromInt(w), w, t)

\* The SEDs of one epoch: one measurement per wavelength observed at it
EpochSEDs ==
    {[k \in DOMAIN Sorted(S) |-> Observation(Sorted(S)[k], t)] :
        S \in (SUBSET Wavelengths) \ {{}}, t \in Times}

\* SEDs as get_SED over a floor(time) group or a careless caller may build
\* them: elements of two times, and a wavelength twice.  Every SED has a
\* first element, which gives it its epoch (sed.py:84 reads SED[0]).
IrregularSEDs ==
    {<<Observation(1, 2), Observation(2, 3)>>,
     <<Observation(1, 2), Observation(1, 2)>>}

Collections ==
    UNION {[1..n -> EpochSEDs \cup IrregularSEDs] : n \in 0..MaxSEDs}

Init ==
    /\ SEDs \in Collections
    /\ pc = "idle"
    /\ observed_wavelengths = <<>>
    /\ observed_times = <<>>
    /\ wl = 0
    /\ interpolated_fluxes = <<>>
    /\ SED = 0
    /\ exception = ""
    /\ calls = 0
    /\ snapshots = <<>>
    /\ NoCall

\* sed.py:73-75, the call and the two lines before the loop
Call ==
    /\ pc \in {"idle", "done", "raised"}
    /\ calls < MaxCalls
    /\ calls' = calls + 1
    /\ snapshots' = Append(snapshots, SEDs)
    /\ observed_wavelengths' = get_observed_wavelengths(SEDs)
    /\ observed_times' = get_observed_times(SEDs)
    /\ wl' = 1
    /\ interpolated_fluxes' = <<>>
    /\ SED' = 0
    /\ exception' = ""
    /\ pc' = "for_wl"
    /\ UNCHANGED <<SEDs, fn, args, result>>

\* sed.py:77-78 for the wavelength the loop is at
InterpolatedOfThisWavelength ==
    get_interpolated_fluxes(
        get_monochromatic_lightcurve(SEDs, observed_wavelengths[wl]),
        observed_times)

\* sed.py:76-78: the loop takes its next wavelength and interpolates it
Interpolate ==
    /\ pc = "for_wl"
    /\ wl <= Len(observed_wavelengths)
    /\ InterpolatedOfThisWavelength.ok
    /\ interpolated_fluxes' = InterpolatedOfThisWavelength.value
    /\ SED' = 1
    /\ pc' = "for_SED"
    /\ UNCHANGED <<SEDs, observed_wavelengths, observed_times, wl, exception,
                   calls, snapshots, fn, args, result>>

\* sed.py:78: the exception of get_interpolated_fluxes leaves the call
InterpolateRaises ==
    /\ pc = "for_wl"
    /\ wl <= Len(observed_wavelengths)
    /\ ~InterpolatedOfThisWavelength.ok
    /\ exception' = InterpolatedOfThisWavelength.exception
    /\ pc' = "raised"
    /\ UNCHANGED <<SEDs, observed_wavelengths, observed_times, wl,
                   interpolated_fluxes, SED, calls, snapshots, fn, args, result>>

\* sed.py:82-85: one round of the outer loop of the append
AppendToSED ==
    /\ pc = "for_SED"
    /\ SED <= Len(SEDs)
    /\ SEDs' = [SEDs EXCEPT ![SED] = AppendTo(@, interpolated_fluxes)]
    /\ SED' = SED + 1
    /\ UNCHANGED <<pc, observed_wavelengths, observed_times, wl,
                   interpolated_fluxes, exception, calls, snapshots,
                   fn, args, result>>

\* sed.py:82: the outer loop is over, the append returns
AppendReturns ==
    /\ pc = "for_SED"
    /\ SED > Len(SEDs)
    /\ pc' = "appended"
    /\ UNCHANGED <<SEDs, observed_wavelengths, observed_times, wl,
                   interpolated_fluxes, SED, exception, calls, snapshots,
                   fn, args, result>>

\* sed.py:76: back to the head of the loop over the wavelengths
NextWavelength ==
    /\ pc = "appended"
    /\ wl' = wl + 1
    /\ pc' = "for_wl"
    /\ UNCHANGED <<SEDs, observed_wavelengths, observed_times,
                   interpolated_fluxes, SED, exception, calls, snapshots,
                   fn, args, result>>

\* sed.py:76: no wavelength is left, interpolate_missing_fluxes returns
Returns ==
    /\ pc = "for_wl"
    /\ wl > Len(observed_wavelengths)
    /\ pc' = "done"
    /\ UNCHANGED <<SEDs, observed_wavelengths, observed_times, wl,
                   interpolated_fluxes, SED, exception, calls, snapshots,
                   fn, args, result>>

Next ==
    \/ Call
    \/ Interpolate
    \/ InterpolateRaises
    \/ AppendToSED
    \/ AppendReturns
    \/ NextWavelength
    \/ Returns

Spec == Init /\ [][Next]_vars

----------------------------------------------------------------------------
(* append_interpolated_fluxes_to_SEDs called on its own *)

AppendTimes == {1, 2}

\* SEDs of one or two measurements, of one time or of two
AppendSEDs ==
    {<<Observation(1, t)>> : t \in AppendTimes}
    \cup {<<Observation(1, t), Observation(1, u)>> : t, u \in AppendTimes}

\* Lists of fluxes to append: any times, in any order, repeated or not
AppendFluxLists ==
    UNION {[1..n -> {Observation(2, t) : t \in AppendTimes}] : n \in 0..2}

InitAppend ==
    /\ SEDs \in UNION {[1..n -> AppendSEDs] : n \in 0..MaxSEDs}
    /\ interpolated_fluxes \in AppendFluxLists
    /\ pc = "for_SED"
    /\ SED = 1
    /\ snapshots = <<SEDs>>
    /\ observed_wavelengths = <<>>
    /\ observed_times = <<>>
    /\ wl = 0
    /\ exception = ""
    /\ calls = 0
    /\ NoCall

NextAppend ==
    \/ AppendToSED
    \/ AppendReturns

SpecAppend == InitAppend /\ [][NextAppend]_vars

----------------------------------------------------------------------------
(* weighted_average on lists of values and uncertainties *)

Values == {FromInt(-1), FromInt(0), FromInt(2)}
Uncertainties == {FromInt(0), FromInt(1), FromInt(2)}

InitAverage ==
    /\ fn = ""
    /\ result = NoResult
    /\ \E n \in 1..MaxLen :
         \E values \in [1..n -> Values], uncertainties \in [1..n -> Uncertainties] :
            args = [for |-> "weighted_average", values |-> values,
                    uncertainties |-> uncertainties]
    /\ NoCollection

Call_weighted_average ==
    /\ fn = ""
    /\ args.for = "weighted_average"
    /\ fn' = "weighted_average"
    /\ result' = weighted_average(args.values, args.uncertainties)
    /\ UNCHANGED <<args, SEDs, pc, observed_wavelengths, observed_times, wl,
                   interpolated_fluxes, SED, exception, calls, snapshots>>

SpecAverage == InitAverage /\ [][Call_weighted_average]_vars

----------------------------------------------------------------------------
(* get_SED on a list of measurements *)

\* Measurements of two wavelengths, two times, two fluxes and two (nonzero)
\* uncertainties
SEDFluxes ==
    {MonochromaticFlux(FromInt(f), FromInt(u), w, t) :
        f \in {1, 3}, u \in {1, 2}, w \in Wavelengths, t \in {1, 2}}

WavelengthsOf(fluxes) == {fluxes[i].wavelength : i \in DOMAIN fluxes}

InitSED ==
    /\ fn = ""
    /\ result = NoResult
    /\ \E n \in 0..MaxLen :
         \E fluxes \in [1..n -> SEDFluxes] :
            args = [for |-> "get_SED", fluxes |-> fluxes]
    /\ NoCollection

\* The iteration over the set of wavelengths delivers them in some order
Call_get_SED ==
    /\ fn = ""
    /\ args.for = "get_SED"
    /\ fn' = "get_SED"
    /\ \E order \in Orders(WavelengthsOf(args.fluxes)) :
          result' = get_SED(args.fluxes, order)
    /\ UNCHANGED <<args, SEDs, pc, observed_wavelengths, observed_times, wl,
                   interpolated_fluxes, SED, exception, calls, snapshots>>

SpecSED == InitSED /\ [][Call_get_SED]_vars

----------------------------------------------------------------------------
(* The functions of the interpolator on one lightcurve *)

\* Lightcurves of one wavelength: any times, in any order, repeated or not
Lightcurves == UNION {[1..n -> {Observation(1, t) : t \in Times}] : n \in 0..MaxLen}

\* A previous and a next flux around an epoch, with their own uncertainties
Brackets ==
    {[previous_flux |-> MonochromaticFlux(FromInt(p), FromInt(pu), 1, p),
      next_flux |-> MonochromaticFlux(FromInt(2 * n), FromInt(nu), 1, n),
      unobserved_time |-> t] :
        p \in Times, n \in Times, t \in Times, pu \in {1, 2, 3}, nu \in {1, 2, 3}}

InitLightcurve ==
    /\ fn = ""
    /\ result = NoResult
    /\ \/ \E lightcurve \in Lightcurves, t \in Times :
            args = [for |-> "neighbours", lightcurve |-> lightcurve, time |-> t]
       \/ \E lightcurve \in Lightcurves, T \in SUBSET Times :
            args = [for |-> "get_interpolated_fluxes",
                    lightcurve |-> lightcurve, observed_times |-> Sorted(T)]
       \/ \E b \in Brackets :
            /\ b.previous_flux.time < b.unobserved_time
            /\ b.unobserved_time < b.next_flux.time
            /\ args = [for |-> "get_interpolated_flux_uncertainty", bracket |-> b]
    /\ NoCollection

Call_get_previous_flux ==
    /\ fn = ""
    /\ args.for = "neighbours"
    /\ fn' = "get_previous_flux"
    /\ result' = get_previous_flux(args.lightcurve, args.time)
    /\ UNCHANGED <<args, SEDs, pc, observed_wavelengths, observed_times, wl,
                   interpolated_fluxes, SED, exception, calls, snapshots>>

Call_get_next_flux ==
    /\ fn = ""
    /\ args.for = "neighbours"
    /\ fn' = "get_next_flux"
    /\ result' = get_next_flux(args.lightcurve, args.time)
    /\ UNCHANGED <<args, SEDs, pc, observed_wavelengths, observed_times, wl,
                   interpolated_fluxes, SED, exception, calls, snapshots>>

Call_get_interpolated_fluxes ==
    /\ fn = ""
    /\ args.for = "get_interpolated_fluxes"
    /\ fn' = "get_interpolated_fluxes"
    /\ result' = get_interpolated_fluxes(args.lightcurve, args.observed_times)
    /\ UNCHANGED <<args, SEDs, pc, observed_wavelengths, observed_times, wl,
                   interpolated_fluxes, SED, exception, calls, snapshots>>

Call_get_interpolated_flux_uncertainty ==
    /\ fn = ""
    /\ args.for = "get_interpolated_flux_uncertainty"
    /\ fn' = "get_interpolated_flux_uncertainty"
    /\ result' = Return(get_interpolated_flux_uncertainty(
                            args.bracket.previous_flux,
                            args.bracket.next_flux,
                            args.bracket.unobserved_time))
    /\ UNCHANGED <<args, SEDs, pc, observed_wavelengths, observed_times, wl,
                   interpolated_fluxes, SED, exception, calls, snapshots>>

NextLightcurve ==
    \/ Call_get_previous_flux
    \/ Call_get_next_flux
    \/ Call_get_interpolated_fluxes
    \/ Call_get_interpolated_flux_uncertainty

SpecLightcurve == InitLightcurve /\ [][NextLightcurve]_vars

----------------------------------------------------------------------------
(* The claims *)

IsPrefix(a, b) == Len(a) <= Len(b) /\ SubSeq(b, 1, Len(a)) = a

Count(s, x) == Cardinality({i \in DOMAIN s : s[i] = x})

\* What follows, in an SED, the elements it had in `before`
Appended(before, now) == SubSeq(now, Len(before) + 1, Len(now))

\* C1: an epoch with a leading or trailing gap in a lightcurve is skipped:
\* interpolate_missing_fluxes (and get_interpolated_fluxes in it) does not
\* fail, it goes on with the remaining epochs and wavelengths.
C1_GapsAreSkipped == ~(pc = "raised" /\ exception = ValueError)

\* The fluxes get_interpolated_fluxes produced for epoch t
ProducedAt(t) ==
    IF result.ok
    THEN {k \in DOMAIN result.value : result.value[k].time = t}
    ELSE {}

BracketedEpochs(lightcurve, times) ==
    {t \in Elems(times) :
        /\ t \notin Elems(get_times(lightcurve))
        /\ \E f \in Elems(lightcurve) : f.time < t
        /\ \E f \in Elems(lightcurve) : f.time > t}

PreviousTime(lightcurve, t) ==
    CHOOSE p \in Elems(get_times(lightcurve)) :
        p < t /\ \A q \in Elems(get_times(lightcurve)) : q < t => q <= p

NextTime(lightcurve, t) ==
    CHOOSE n \in Elems(get_times(lightcurve)) :
        n > t /\ \A q \in Elems(get_times(lightcurve)) : q > t => n <= q

OneFluxPerBracketedEpoch ==
    /\ \A t \in Elems(args.observed_times) :
          t \in Elems(get_times(args.lightcurve)) => ProducedAt(t) = {}
    /\ \A t \in BracketedEpochs(args.lightcurve, args.observed_times) :
          IF NextTime(args.lightcurve, t) - PreviousTime(args.lightcurve, t) <= 2
          THEN /\ Cardinality(ProducedAt(t)) = 1
               /\ \A k \in ProducedAt(t) :
                     \E f \in Elems(args.lightcurve) :
                        /\ f.time = PreviousTime(args.lightcurve, t)
                        /\ result.value[k].wavelength = f.wavelength
          ELSE ProducedAt(t) = {}

\* C2: get_interpolated_fluxes produces, for every epoch of observed_times
\* that the lightcurve lacks and brackets, exactly one flux (time t, the
\* previous flux's wavelength) if next.time - prev.time <= 2 and none if it is
\* larger, and none for an epoch the lightcurve has.
C2_OneFluxPerBracketedEpoch ==
    fn = "get_interpolated_fluxes" => OneFluxPerBracketedEpoch

\* The same, of the calls of get_interpolated_fluxes that return
C2_WhenItReturns ==
    (fn = "get_interpolated_fluxes" /\ result.ok) => OneFluxPerBracketedEpoch

\* C3: interpolate_missing_fluxes is idempotent: a call on a collection that
\* an earlier call has processed appends nothing, every SED stays as the
\* first call left it.
C3_Idempotent == calls >= 2 => SEDs = snapshots[2]

C3_Witness ==
    /\ calls = 2
    /\ pc = "done"
    /\ snapshots[2] /= snapshots[1]

\* C4: get_SED returns one element per distinct wavelength of its input: the
\* measurement itself where the wavelength occurs once, combine_fluxes of all
\* the measurements of the wavelength, whatever their times, where it occurs
\* more than once.
C4_OneElementPerWavelength ==
    fn = "get_SED" =>
        /\ result.ok
        /\ Len(result.value) = Cardinality(WavelengthsOf(args.fluxes))
        /\ \A w \in WavelengthsOf(args.fluxes) :
              LET group == SelectSeq(args.fluxes, LAMBDA f : f.wavelength = w)
                  at == {k \in DOMAIN result.value :
                            result.value[k].wavelength = w}
              IN  /\ Cardinality(at) = 1
                  /\ \A k \in at :
                        result.value[k] =
                            IF Len(group) = 1 THEN group[1]
                            ELSE combine_fluxes(group).value

C4_Witness ==
    /\ fn = "get_SED"
    /\ result.ok
    /\ Len(result.value) = 2
    /\ Len(args.fluxes) = 3
    /\ \E i, j \in DOMAIN args.fluxes :
          /\ i /= j
          /\ args.fluxes[i].wavelength = args.fluxes[j].wavelength
          /\ args.fluxes[i].time /= args.fluxes[j].time
          /\ args.fluxes[i].flux /= args.fluxes[j].flux

\* C5: interpolate_missing_fluxes and the append in it only append: at every
\* point of a call and after it the collection has the SEDs it had, in their
\* order, and each SED begins with the elements it had before the call,
\* unchanged and in their order.
C5_OnlyAppends ==
    \A k \in DOMAIN snapshots :
        /\ Len(SEDs) = Len(snapshots[k])
        /\ \A i \in DOMAIN SEDs : IsPrefix(snapshots[k][i], SEDs[i])

C5_Witness ==
    /\ pc = "for_SED"
    /\ calls = 1
    /\ SED > 1
    /\ SED <= Len(SEDs)
    /\ Len(SEDs[1]) > Len(snapshots[1][1])

\* C6: append_interpolated_fluxes_to_SEDs appends each interpolated flux to
\* exactly the SEDs whose first element has the flux's time: once to each of
\* them, to no other, so that what is appended to an SED has the time of the
\* SED's first element.
C6_AppendedWhereFirstTimeMatches ==
    pc = "appended" =>
        /\ Len(SEDs) = Len(snapshots[1])
        /\ \A i \in DOMAIN SEDs :
              LET before == snapshots[1][i]
                  appended == Appended(before, SEDs[i])
              IN  /\ IsPrefix(before, SEDs[i])
                  /\ \A k \in DOMAIN appended :
                        appended[k].time = before[1].time
                  /\ Elems(appended) \subseteq Elems(interpolated_fluxes)
                  /\ \A f \in Elems(interpolated_fluxes) :
                        Count(appended, f) =
                            IF f.time = before[1].time
                            THEN Count(interpolated_fluxes, f)
                            ELSE 0

C6_Witness ==
    /\ pc = "appended"
    /\ \E i, j, k \in DOMAIN SEDs :
          /\ i /= j
          /\ snapshots[1][i][1].time = snapshots[1][j][1].time
          /\ Len(SEDs[i]) > Len(snapshots[1][i])
          /\ Len(SEDs[j]) > Len(snapshots[1][j])
          /\ snapshots[1][j][Len(snapshots[1][j])].time
                /= snapshots[1][j][1].time
          /\ Len(SEDs[k]) = Len(snapshots[1][k])
          /\ \E f \in Elems(interpolated_fluxes) :
                f.time = snapshots[1][k][Len(snapshots[1][k])].time

\* uncertainty^2 = weight1^2 * prev.flux_uncertainty^2
\*                 + weight2^2 * next.flux_uncertainty^2
SymmetricVariance(previous_flux, next_flux, unobserved_time) ==
    LET weight1 == Rat(next_flux.time - unobserved_time,
                       next_flux.time - previous_flux.time)
        weight2 == Rat(unobserved_time - previous_flux.time,
                       next_flux.time - previous_flux.time)
    IN  RatAdd(RatMul(Pow2(weight1), Pow2(previous_flux.flux_uncertainty)),
               RatMul(Pow2(weight2), Pow2(next_flux.flux_uncertainty)))

\* C7: for prev.time < t < next.time the square of the uncertainty that
\* get_interpolated_flux_uncertainty returns is
\* weight1^2 * prev.flux_uncertainty^2 + weight2^2 * next.flux_uncertainty^2.
C7_SymmetricUncertainty ==
    fn = "get_interpolated_flux_uncertainty" =>
        Pow2(result.value) =
            SymmetricVariance(args.bracket.previous_flux,
                              args.bracket.next_flux,
                              args.bracket.unobserved_time)

InverseVariances(uncertainties) ==
    [i \in DOMAIN uncertainties |->
        RatDiv(FromInt(1), RatMul(uncertainties[i], uncertainties[i]))]

\* C8: for non-empty lists of equal length with no zero uncertainty,
\* weighted_average is sum(w_i * v_i) / sum(w_i) with w_i = 1/uncertainty_i^2
\* and lies between the least and the greatest value.
C8_WeightedAverageInRange ==
    (/\ fn = "weighted_average"
     /\ \A i \in DOMAIN args.uncertainties : ~RatIsZero(args.uncertainties[i]))
    =>
        LET w == InverseVariances(args.uncertainties)
            v == args.values
        IN  /\ result.ok
            /\ RatMul(result.value, Sum(w)) =
                   Sum([i \in DOMAIN v |-> RatMul(w[i], v[i])])
            /\ \E i \in DOMAIN v : RatLeq(v[i], result.value)
            /\ \E i \in DOMAIN v : RatLeq(result.value, v[i])

C8_Witness ==
    /\ fn = "weighted_average"
    /\ result.ok
    /\ Len(args.values) = 3
    /\ args.values[1] /= args.values[2]
    /\ args.uncertainties[1] /= args.uncertainties[2]
    /\ \A i \in DOMAIN args.values : result.value /= args.values[i]

\* C9: whatever the order of the lightcurve, get_previous_flux returns an
\* element of it of the greatest time below t and get_next_flux one of the
\* least time above t (each whenever the lightcurve has such an element);
\* an element of time t is never returned.
C9_NearestNeighbours ==
    /\ fn = "get_previous_flux" =>
          /\ result.ok <=> \E f \in Elems(args.lightcurve) : f.time < args.time
          /\ result.ok =>
                /\ result.value \in Elems(args.lightcurve)
                /\ result.value.time < args.time
                /\ \A f \in Elems(args.lightcurve) :
                      f.time < args.time => f.time <= result.value.time
    /\ fn = "get_next_flux" =>
          /\ result.ok <=> \E f \in Elems(args.lightcurve) : f.time > args.time
          /\ result.ok =>
                /\ result.value \in Elems(args.lightcurve)
                /\ result.value.time > args.time
                /\ \A f \in Elems(args.lightcurve) :
                      f.time > args.time => f.time >= result.value.time

C9_Witness ==
    /\ fn = "get_previous_flux"
    /\ result.ok
    /\ Len(args.lightcurve) = 3
    /\ args.lightcurve[1].time = args.time
    /\ args.lightcurve[2].time = result.value.time
    /\ args.lightcurve[3].time < result.value.time

WellFormed(collection) ==
    \A i \in DOMAIN collection :
        /\ collection[i] /= <<>>
        /\ \A j, k \in DOMAIN collection[i] :
              /\ collection[i][j].time = collection[i][k].time
              /\ collection[i][j].wavelength = collection[i][k].wavelength
                    => j = k

\* C10: if every SED is non-empty, of one time and without a wavelength
\* twice before the call, then no SED has a wavelength twice when
\* interpolate_missing_fluxes completes: a flux of wavelength w is appended
\* only to SEDs that had no element of wavelength w, and once at most.
C10_NoWavelengthTwice ==
    (pc = "done" /\ WellFormed(snapshots[1])) =>
        \A i \in DOMAIN SEDs :
            /\ \A j, k \in DOMAIN SEDs[i] :
                  SEDs[i][j].wavelength = SEDs[i][k].wavelength => j = k
            /\ \A f \in Elems(Appended(snapshots[1][i], SEDs[i])) :
                  \A g \in Elems(snapshots[1][i]) :
                     f.wavelength /= g.wavelength

C10_Witness ==
    /\ pc = "done"
    /\ calls = 1
    /\ WellFormed(snapshots[1])
    /\ \E i \in DOMAIN SEDs : Len(SEDs[i]) > Len(snapshots[1][i])

====
